---- MODULE Spec2Model ----
(***************************************************************************)
(* A model of the simple-invaders simulation core                          *)
(* (src/simple-invaders/src/lib.rs): the World aggregate, its fixed-rate   *)
(* clock (World::update), the per-tick entity update                       *)
(* (World::step_invaders) and the Stepper cursor over the invader grid.    *)
(*                                                                         *)
(* Durations are whole nanoseconds.  Vec<..> is a function over 0..n-1,    *)
(* Option<T> is a sequence of length 0 (None) or 1 (Some).                 *)
(***************************************************************************)
EXTENDS Integers, Sequences, FiniteSets, TLC

\* ------------------------------------------------------------------ bounds

\* The most update() calls in one behaviour of Spec.
MaxUpdates == 6

\* The most Stepper::incr calls counted in one behaviour (the counter of the
\* search loop saturates there).
MaxCalls == 120

\* --------------------------------------------------------------- constants

SCREEN_WIDTH == 224

SCREEN_HEIGHT == 256

ROWS == 5

COLS == 11

\* Point::new
Point_new(x, y) == [x |-> x, y |-> y]

\* impl Add for Point
Point_add(p, q) == Point_new(p.x + q.x, p.y + q.y)

\* impl Mul for Point
Point_mul(p, q) == Point_new(p.x * q.x, p.y * q.y)

START == Point_new(24, 60)

GRID == Point_new(16, 16)

\* let one_frame = Duration::new(0, 16_666_667), in nanoseconds
one_frame == 16666667

\* Option<T>
None == << >>

Some(v) == << v >>

unwrap(o) == o[1]

\* ------------------------------------------------------------------ sprites

\* The number of animation frames of an invader sprite.
frame_count == 2

\* SpriteRef::new(assets, frame): a cursor on the first frame of a template.
SpriteRef_new(template) == [template |-> template, frame |-> 0]

\* SpriteRef::animate: one frame forward, wrapping at the frame count.
animate(sprite) == [sprite EXCEPT !.frame = (@ + 1) % frame_count]

\* ------------------------------------------------------------------ stepper

\* Stepper::default starting on the first column.
Stepper_default_origin == [row |-> 0, col |-> 0]

\* impl Default for Stepper
Stepper_default == [row |-> 0, col |-> COLS - 1]

\* Stepper::incr with the column test off by one (col > COLS).
Stepper_incr_gt(s) ==
    LET c1 == s.col + 1
        n  == IF c1 > COLS
              THEN [row |-> IF s.row = 0 THEN ROWS - 1 ELSE s.row - 1, col |-> 0]
              ELSE [row |-> s.row, col |-> c1]
    IN  [stepper |-> n, ret |-> << n.col, n.row >>]

\* Stepper::incr wrapping row 0 to ROWS - 2 instead of ROWS - 1.
Stepper_incr_rowskip(s) ==
    LET c1 == s.col + 1
        n  == IF c1 >= COLS
              THEN [row |-> IF s.row = 0 THEN ROWS - 2 ELSE s.row - 1, col |-> 0]
              ELSE [row |-> s.row, col |-> c1]
    IN  [stepper |-> n, ret |-> << n.col, n.row >>]

\* Stepper::incr walking the rows in natural row-major order.
Stepper_incr_rowmajor(s) ==
    LET c1 == s.col + 1
        n  == IF c1 >= COLS
              THEN [row |-> IF s.row = ROWS - 1 THEN 0 ELSE s.row + 1, col |-> 0]
              ELSE [row |-> s.row, col |-> c1]
    IN  [stepper |-> n, ret |-> << n.col, n.row >>]

\* Stepper::incr leaving the row as it is when the column wraps.
Stepper_incr_samerow(s) ==
    LET c1 == s.col + 1
        n  == IF c1 >= COLS
              THEN [row |-> s.row, col |-> 0]
              ELSE [row |-> s.row, col |-> c1]
    IN  [stepper |-> n, ret |-> << n.col, n.row >>]

\* Stepper::incr: the stepper after the call and the returned (col, row).
Stepper_incr(s) ==
    LET c1 == s.col + 1
        n  == IF c1 >= COLS
              THEN [row |-> IF s.row = 0 THEN ROWS - 1 ELSE s.row - 1, col |-> 0]
              ELSE [row |-> s.row, col |-> c1]
    IN  [stepper |-> n, ret |-> << n.col, n.row >>]

\* Bounds::default without the cell width in `right`.
Bounds_default_cols ==
    [left   |-> START.x,
     right  |-> START.x + COLS,
     bottom |-> START.y + ROWS * GRID.y]

\* impl Default for Bounds
Bounds_default ==
    [left   |-> START.x,
     right  |-> START.x + COLS * GRID.x,
     bottom |-> START.y + ROWS * GRID.y]

\* --------------------------------------------------------------------- grid

BLIPJOY_OFFSET == Point_new(3, 4)

FERRIS_OFFSET == Point_new(3, 5)

\* make_invader_grid using the Ferris offset for the last band as well.
make_invader_ferris(x, y) ==
    CASE y \in 0..0 ->
           [sprite |-> SpriteRef_new("Blipjoy"),
            pos    |-> Point_add(Point_add(START, BLIPJOY_OFFSET),
                                 Point_mul(Point_new(x, y), GRID)),
            score  |-> 10]
      [] y \in 1..2 ->
           [sprite |-> SpriteRef_new("Ferris"),
            pos    |-> Point_add(Point_add(START, FERRIS_OFFSET),
                                 Point_mul(Point_new(x, y), GRID)),
            score  |-> 10]
      [] y \in 3..4 ->
           [sprite |-> SpriteRef_new("Cthulhu"),
            pos    |-> Point_add(Point_add(START, FERRIS_OFFSET),
                                 Point_mul(Point_new(x, y), GRID)),
            score  |-> 10]

\* The Invader built for grid cell (x, y) by make_invader_grid.
make_invader(x, y) ==
    CASE y \in 0..0 ->
           [sprite |-> SpriteRef_new("Blipjoy"),
            pos    |-> Point_add(Point_add(START, BLIPJOY_OFFSET),
                                 Point_mul(Point_new(x, y), GRID)),
            score  |-> 10]
      [] y \in 1..2 ->
           [sprite |-> SpriteRef_new("Ferris"),
            pos    |-> Point_add(Point_add(START, FERRIS_OFFSET),
                                 Point_mul(Point_new(x, y), GRID)),
            score  |-> 10]
      [] y \in 3..4 ->
           [sprite |-> SpriteRef_new("Cthulhu"),
            pos    |-> Point_add(Point_add(START, BLIPJOY_OFFSET),
                                 Point_mul(Point_new(x, y), GRID)),
            score  |-> 10]

\* make_invader_grid: the rows (0..1), (1..3), (3..5) chained, COLS cells each.
make_invader_grid ==
    [y \in 0..4 |-> [x \in 0..(COLS - 1) |-> Some(make_invader(x, y))]]

\* The grid cells, as (row, col).
Cells == (0..(ROWS - 1)) \X (0..(COLS - 1))

\* The Invaders struct built by World::new.
Invaders_new ==
    [grid    |-> make_invader_grid,
     stepper |-> Stepper_default,
     bounds  |-> Bounds_default]

\* Grid occupancies the search loop is run on: whole rows destroyed, a single
\* survivor (anywhere), a single cell destroyed, a single surviving column, a
\* single destroyed column.  (World::new builds the full grid; a destroyed
\* invader is a None cell.)
Occupancies ==
    { { c \in Cells : c[1] \in R } : R \in SUBSET (0..(ROWS - 1)) }
    \cup { { c } : c \in Cells }
    \cup { Cells \ { c } : c \in Cells }
    \cup { { c \in Cells : c[2] = k } : k \in 0..(COLS - 1) }
    \cup { { c \in Cells : c[2] # k } : k \in 0..(COLS - 1) }

\* The constructed grid with the cells outside `live` destroyed.
grid_with(live) ==
    [y \in 0..(ROWS - 1) |->
        [x \in 0..(COLS - 1) |->
            IF << y, x >> \in live THEN make_invader_grid[y][x] ELSE None]]

\* ------------------------------------------------------------------- screen

\* The pixel buffer, a Vec<u8>, is held as its length, the loop that last
\* wrote every byte of it ("default": resize_with(.., Default::default);
\* "clear": World::clear) and the blits made onto it since, in order.

\* let mut screen = Vec::new(); screen.resize_with(WIDTH * HEIGHT * 4, Default::default)
screen_new ==
    [len   |-> SCREEN_WIDTH * SCREEN_HEIGHT * 4,
     fill  |-> "default",
     blits |-> << >>]

\* The body of clear's loop writing 255 to the first byte of each pixel.
clear_byte_first(i) == IF i % 4 = 0 THEN 255 ELSE 0

\* The body of clear's loop: *byte = if i % 4 == 3 { 255 } else { 0 }.
clear_byte(i) == IF i % 4 = 3 THEN 255 ELSE 0

\* World::clear: every byte of the buffer is overwritten in place.
clear(scr) == [scr EXCEPT !.fill = "clear", !.blits = << >>]

\* blit(&mut screen, &pos, &sprite): the sprite's current frame drawn at pos
\* into the slice; which bytes it writes is the collaborator's business.
blit(scr, pos, sprite) ==
    [scr EXCEPT !.blits = Append(@, [pos |-> pos, sprite |-> sprite])]

\* The grid cells in the order of draw's loops: for row in grid, for col in row.
draw_order ==
    [k \in 1..(ROWS * COLS) |-> << (k - 1) \div COLS, (k - 1) % COLS >>]

\* The loops of draw: blit(screen, invader.pos, invader.sprite) for each
\* occupied cell, in draw_order.
draw_invaders(scr, grid) ==
    LET live == SelectSeq(draw_order, LAMBDA c : grid[c[1]][c[2]] # None)
    IN  [scr EXCEPT !.blits = @ \o
            [k \in 1..Len(live) |->
                [pos    |-> unwrap(grid[live[k][1]][live[k][2]]).pos,
                 sprite |-> unwrap(grid[live[k][1]][live[k][2]]).sprite]]]

\* The bytes of a buffer nothing was blitted onto, by index.
screen_bytes(scr) ==
    [i \in 0..(scr.len - 1) |->
        IF scr.fill = "clear" THEN clear_byte(i) ELSE 0]

\* -------------------------------------------------------------------- world

\* World::new: the fields of World the simulation reads or writes.
World_new ==
    [invaders |-> Invaders_new,
     score    |-> 0,
     screen   |-> screen_new,
     timing   |-> 0]

\* The search loop of step_invaders: incr until the cell is occupied.  (The
\* next iteration is entered through a set binding so that its argument is
\* evaluated once.)
RECURSIVE find_invader(_)
find_invader(inv) ==
    LET r    == Stepper_incr(inv.stepper)
        col  == r.ret[1]
        row  == r.ret[2]
        next == [inv EXCEPT !.stepper = r.stepper]
    IN  IF next.grid[row][col] = None
        THEN CHOOSE f \in { find_invader(n) : n \in { next } } : TRUE
        ELSE [invaders |-> next, row |-> row, col |-> col]

\* World::step_invaders animating every invader of the found row.
step_invaders_row(inv) ==
    LET f == find_invader(inv)
    IN  [f.invaders EXCEPT !.grid[f.row] =
            [x \in DOMAIN @ |->
                IF @[x] = None THEN None
                ELSE Some([unwrap(@[x]) EXCEPT !.sprite = animate(@)])]]

\* World::step_invaders advancing the stepper once more after the search.
step_invaders_extra(inv) ==
    LET f == find_invader(inv)
    IN  [f.invaders EXCEPT !.grid[f.row][f.col] =
                              Some([unwrap(@) EXCEPT !.sprite = animate(@)]),
                           !.stepper = Stepper_incr(@).stepper]

\* World::step_invaders with its TODO done: the invader also moves.
step_invaders_move(inv) ==
    LET f == find_invader(inv)
    IN  [f.invaders EXCEPT !.grid[f.row][f.col] =
            Some([unwrap(@) EXCEPT !.sprite = animate(@),
                                   !.pos = Point_add(@, Point_new(1, 0))])]

\* World::step_invaders searching from a copy of the stepper, which is never
\* written back.
step_invaders_copy(inv) ==
    LET f == find_invader(inv)
    IN  [inv EXCEPT !.grid[f.row][f.col] =
            Some([unwrap(@) EXCEPT !.sprite = animate(@)])]

\* World::step_invaders: find the next invader, animate it.
step_invaders(inv) ==
    LET f == find_invader(inv)
    IN  [f.invaders EXCEPT !.grid[f.row][f.col] =
            Some([unwrap(@) EXCEPT !.sprite = animate(@)])]

\* The while loop of World::update; n counts the steps taken.
RECURSIVE update_loop(_, _)
update_loop(w, n) ==
    IF w.timing >= one_frame
    THEN update_loop([w EXCEPT !.timing = @ - one_frame,
                               !.invaders = step_invaders(@)], n + 1)
    ELSE [world |-> w, ticks |-> n]

\* World::update taking at most one step per call (if for while).
World_update_if(w, dt) ==
    LET t == [w EXCEPT !.timing = @ + dt]
    IN  IF t.timing >= one_frame
        THEN [world |-> [t EXCEPT !.timing = @ - one_frame,
                                  !.invaders = step_invaders(@)],
              ticks |-> 1]
        ELSE [world |-> t, ticks |-> 0]

\* World::update dropping the leftover of the previous call (= for +=).
World_update_assign(w, dt) == update_loop([w EXCEPT !.timing = dt], 0)

\* World::update(dt, controls): the world after the call and the steps taken.
World_update(w, dt) == update_loop([w EXCEPT !.timing = @ + dt], 0)

\* -------------------------------------------------------------------- state

VARIABLES
    invaders,   \* World.invaders: [grid, stepper, bounds]
    score,      \* World.score
    timing,     \* World.timing, in nanoseconds
    screen,     \* World.screen
    pc,         \* where a running step_invaders call is
    invader,    \* step_invaders' local `invader`: None or Some(<<row, col>>)
    start,      \* World.invaders when the running step_invaders call began
    calls,      \* Stepper::incr calls made (by the running search loop)
    trace,      \* the (col, row) pairs returned by Stepper::incr, in order
    ticks,      \* step_invaders calls made by update so far
    elapsed,    \* the sum of the dt given to update so far
    updates,    \* update calls so far
    recent      \* the sets of grid cells changed by the latest step_invaders calls

vars == << invaders, score, timing, screen, pc, invader, start, calls, trace,
           ticks, elapsed, updates, recent >>

\* The World value held by the state.
W == [invaders |-> invaders, score |-> score, screen |-> screen,
      timing |-> timing]

\* The values of dt handed to update, in nanoseconds.
Deltas == { 0, 1, 5000000, 16666666, 16666667, 33333335, 250000000 }

\* The state after World::new().
Init ==
    /\ invaders = World_new.invaders
    /\ score = World_new.score
    /\ timing = World_new.timing
    /\ screen = World_new.screen
    /\ pc = "idle"
    /\ invader = None
    /\ start = World_new.invaders
    /\ calls = 0
    /\ trace = << >>
    /\ ticks = 0
    /\ elapsed = 0
    /\ updates = 0
    /\ recent = << >>

\* One call of World::update(dt, controls).
Update(dt) ==
    /\ pc = "idle"
    /\ updates < MaxUpdates
    /\ LET r == World_update(W, dt)
       IN  /\ invaders' = r.world.invaders
           /\ score' = r.world.score
           /\ timing' = r.world.timing
           /\ screen' = r.world.screen
           /\ ticks' = ticks + r.ticks
    /\ elapsed' = elapsed + dt
    /\ updates' = updates + 1
    /\ UNCHANGED << pc, invader, start, calls, trace, recent >>

\* World::draw without its call of clear.
World_draw_noclear(w) ==
    [w EXCEPT !.screen = draw_invaders(@, w.invaders.grid)]

\* World::draw as one call: clear, blit the invaders, return &self.screen.
World_draw(w) ==
    [w EXCEPT !.screen = draw_invaders(clear(@), w.invaders.grid)]

\* The values of dt handed to update where the buffer's bytes are looked at.
FrameDeltas == { 5000000, one_frame }

\* World::draw, its first statement: self.clear().
DrawClear ==
    /\ pc = "idle"
    /\ screen' = clear(screen)
    /\ pc' = "cleared"
    /\ UNCHANGED << invaders, score, timing, invader, start, calls, trace, recent,
                    ticks, elapsed, updates >>

\* World::draw, the rest: the invaders are blitted and &self.screen returned.
DrawBlits ==
    /\ pc = "cleared"
    /\ screen' = draw_invaders(screen, invaders.grid)
    /\ pc' = "idle"
    /\ UNCHANGED << invaders, score, timing, invader, start, calls, trace, recent,
                    ticks, elapsed, updates >>

Next == (\E dt \in Deltas : Update(dt)) \/ DrawClear \/ DrawBlits

DrawNext == (\E dt \in FrameDeltas : Update(dt)) \/ DrawClear \/ DrawBlits

\* The World driven by a host loop with two frame times.
DrawSpec == Init /\ [][DrawNext]_vars

\* The World driven by its host loop.
Spec == Init /\ [][Next]_vars

\* ------------------------------------------------------------ stepper alone

\* One call of Stepper::incr on the World's stepper.
StepperIncr ==
    /\ calls < MaxCalls
    /\ LET r == Stepper_incr(invaders.stepper)
       IN  /\ invaders' = [invaders EXCEPT !.stepper = r.stepper]
           /\ trace' = Append(trace, r.ret)
    /\ calls' = calls + 1
    /\ UNCHANGED << score, timing, screen, pc, invader, start, ticks, elapsed, updates,
                    recent >>

StepperNext == StepperIncr

\* The Stepper advanced any number of times from its default state.
StepperSpec == Init /\ [][StepperNext]_vars

\* ----------------------------------------------- step_invaders, step by step

\* A World whose grid has lost some invaders and whose stepper is anywhere.
StepInit ==
    /\ \E live \in Occupancies, c \in Cells :
          invaders = [grid    |-> grid_with(live),
                      stepper |-> [row |-> c[1], col |-> c[2]],
                      bounds  |-> Bounds_default]
    /\ score = World_new.score
    /\ timing = World_new.timing
    /\ screen = World_new.screen
    /\ pc = "idle"
    /\ invader = None
    /\ start = invaders
    /\ calls = 0
    /\ trace = << >>
    /\ ticks = 0
    /\ elapsed = 0
    /\ updates = 0
    /\ recent = << >>

\* step_invaders is entered: let mut invader = None.
StepBegin ==
    /\ pc = "idle"
    /\ pc' = "search"
    /\ invader' = None
    /\ start' = invaders
    /\ calls' = 0
    /\ UNCHANGED << invaders, score, timing, screen, trace, recent, ticks, elapsed, updates >>

\* The loop iteration reading the cell under the cursor before incr moved it.
StepSearch_stale ==
    /\ pc = "search"
    /\ invader = None
    /\ LET r   == Stepper_incr(invaders.stepper)
           col == invaders.stepper.col
           row == invaders.stepper.row
       IN  /\ invaders' = [invaders EXCEPT !.stepper = r.stepper]
           /\ invader' = IF invaders.grid[row][col] = None
                         THEN None
                         ELSE Some(<< row, col >>)
    /\ calls' = IF calls < MaxCalls THEN calls + 1 ELSE calls
    /\ UNCHANGED << score, timing, screen, pc, start, trace, recent, ticks, elapsed, updates >>

\* One iteration of `while let None = invader`.
StepSearch ==
    /\ pc = "search"
    /\ invader = None
    /\ LET r   == Stepper_incr(invaders.stepper)
           col == r.ret[1]
           row == r.ret[2]
       IN  /\ invaders' = [invaders EXCEPT !.stepper = r.stepper]
           /\ invader' = IF invaders.grid[row][col] = None
                         THEN None
                         ELSE Some(<< row, col >>)
    /\ calls' = IF calls < MaxCalls THEN calls + 1 ELSE calls
    /\ UNCHANGED << score, timing, screen, pc, start, trace, recent, ticks, elapsed, updates >>

\* The end of step_invaders animating every invader of the found row.
StepAnimate_row ==
    /\ pc = "search"
    /\ invader # None
    /\ LET row == unwrap(invader)[1]
       IN  invaders' = [invaders EXCEPT !.grid[row] =
                           [x \in DOMAIN @ |->
                               IF @[x] = None THEN None
                               ELSE Some([unwrap(@[x]) EXCEPT !.sprite = animate(@)])]]
    /\ pc' = "done"
    /\ ticks' = ticks + 1
    /\ UNCHANGED << score, timing, screen, invader, start, calls, trace, recent, elapsed, updates >>

\* The loop is left: invader.unwrap(), invader.sprite.animate(), return.
StepAnimate ==
    /\ pc = "search"
    /\ invader # None
    /\ LET row == unwrap(invader)[1]
           col == unwrap(invader)[2]
       IN  invaders' = [invaders EXCEPT !.grid[row][col] =
                           Some([unwrap(@) EXCEPT !.sprite = animate(@)])]
    /\ pc' = "done"
    /\ ticks' = ticks + 1
    /\ UNCHANGED << score, timing, screen, invader, start, calls, trace, recent, elapsed, updates >>

StepNext == StepBegin \/ StepSearch \/ StepAnimate

\* One step_invaders call, run to its end: the code is sequential, so a step
\* that can be taken is taken.
StepSpec == StepInit /\ [][StepNext]_vars /\ WF_vars(StepNext)

\* ------------------------------------------- step_invaders, call after call

\* Non-empty occupancies the calls are repeated on: whole rows destroyed, a
\* single survivor (in a corner or in the middle), a single surviving column.
\* Nothing in the code changes the occupancy, so it stays as it starts.
TickOccupancies ==
    { { c \in Cells : c[1] \in R } : R \in (SUBSET (0..(ROWS - 1))) \ { {} } }
    \cup { { c } : c \in { << 0, 0 >>, << 0, COLS - 1 >>, << ROWS - 1, 0 >>,
                           << ROWS - 1, COLS - 1 >>, << 2, 5 >> } }
    \cup { { c \in Cells : c[2] = k } : k \in 0..(COLS - 1) }

\* Where the stepper stands before the first call: as constructed, on the
\* first and the last cell of the traversal's first row, on (0, 0) and in the
\* middle of the grid.
TickStarts == { << 0, COLS - 1 >>, << ROWS - 1, 0 >>, << ROWS - 1, COLS - 1 >>,
                << 0, 0 >>, << 2, 5 >> }

\* A World whose grid has lost some invaders (not all).
TickInit ==
    /\ \E live \in TickOccupancies, c \in TickStarts :
          invaders = [grid    |-> grid_with(live),
                      stepper |-> [row |-> c[1], col |-> c[2]],
                      bounds  |-> Bounds_default]
    /\ score = World_new.score
    /\ timing = World_new.timing
    /\ screen = World_new.screen
    /\ pc = "idle"
    /\ invader = None
    /\ start = invaders
    /\ calls = 0
    /\ trace = << >>
    /\ ticks = 0
    /\ elapsed = 0
    /\ updates = 0
    /\ recent = << >>

\* The grid cells whose content differs between two grids.
changed_cells(g, h) == { c \in Cells : g[c[1]][c[2]] # h[c[1]][c[2]] }

\* One whole step_invaders call; `recent` keeps what the latest ROWS*COLS
\* calls changed in the grid.
Tick ==
    /\ pc = "idle"
    /\ \E n \in { step_invaders(invaders) } :
          /\ invaders' = n
          /\ \E r \in { Append(recent, changed_cells(invaders.grid, n.grid)) } :
                recent' = IF Len(r) > ROWS * COLS THEN Tail(r) ELSE r
    /\ UNCHANGED << score, timing, screen, pc, invader, start, calls, trace,
                    ticks, elapsed, updates >>

TickNext == Tick

\* Simulation ticks going on for ever.
TickSpec == TickInit /\ [][TickNext]_vars /\ WF_vars(Tick)

\* ------------------------------------------- update on full-width Durations

\* The most whole seconds a sum timing + dt may hold for the loop of update
\* to be followed (a longer loop is not run through).
MaxSecs == 1

\* std::time::Duration's NANOS_PER_SEC.
NANOS_PER_SEC == 1000000000

\* A u64 is four 16-bit limbs, least significant first.
Limb == 2 ^ 16

u64_MAX == << Limb - 1, Limb - 1, Limb - 1, Limb - 1 >>

\* The u64 of a number below 2^31.
u64_from(n) == << n % Limb, (n \div Limb) % Limb, 0, 0 >>

\* u64::checked_add: None on overflow.
u64_checked_add(a, b) ==
    LET s1 == a[1] + b[1]
        s2 == a[2] + b[2] + (s1 \div Limb)
        s3 == a[3] + b[3] + (s2 \div Limb)
        s4 == a[4] + b[4] + (s3 \div Limb)
    IN  IF s4 >= Limb
        THEN None
        ELSE Some(<< s1 % Limb, s2 % Limb, s3 % Limb, s4 >>)

\* Duration { secs: u64, nanos: u32 }, nanos < NANOS_PER_SEC.
Duration_new(secs, nanos) == [secs |-> secs, nanos |-> nanos]

Duration_MAX == Duration_new(u64_MAX, NANOS_PER_SEC - 1)

\* The Duration of a nanosecond count below 2^31.
Duration_from_nanos(n) ==
    Duration_new(u64_from(n \div NANOS_PER_SEC), n % NANOS_PER_SEC)

\* Duration::checked_add: the seconds added, then the nanoseconds with their
\* carry; None when either addition of seconds overflows.
Duration_checked_add(a, b) ==
    LET secs == u64_checked_add(a.secs, b.secs)
    IN  IF secs = None
        THEN None
        ELSE LET nanos == a.nanos + b.nanos
             IN  IF nanos >= NANOS_PER_SEC
                 THEN LET more == u64_checked_add(unwrap(secs), u64_from(1))
                      IN  IF more = None
                          THEN None
                          ELSE Some(Duration_new(unwrap(more), nanos - NANOS_PER_SEC))
                 ELSE Some(Duration_new(unwrap(secs), nanos))

\* Whether the loop of update is followed on this Duration.
Duration_followed(d) ==
    /\ d.secs[4] = 0
    /\ d.secs[3] = 0
    /\ d.secs[2] = 0
    /\ d.secs[1] <= MaxSecs

\* Duration::as_nanos, of a followed Duration.
Duration_as_nanos(d) == d.secs[1] * NANOS_PER_SEC + d.nanos

\* The values of dt handed to update, as Durations: 1 ns, 5 ms, one frame,
\* 250 ms, u64::MAX seconds (never an overflow: its loop is not followed),
\* Duration::MAX.
Durations ==
    { Duration_from_nanos(1),
      Duration_from_nanos(5000000),
      Duration_from_nanos(one_frame),
      Duration_from_nanos(250000000),
      Duration_new(u64_MAX, 0),
      Duration_MAX }

\* self.timing += dt, on Durations: None when the addition panics.
timing_plus(dt) == Duration_checked_add(Duration_from_nanos(timing), dt)

\* update(dt) whose `self.timing += dt` panics ("overflow when adding
\* durations"): the call unwinds with the World as it was.
UpdatePanics(dt) ==
    /\ pc = "idle"
    /\ updates < MaxUpdates
    /\ timing_plus(dt) = None
    /\ pc' = "panic"
    /\ updates' = updates + 1
    /\ UNCHANGED << invaders, score, timing, screen, invader, start, calls, trace, recent,
                    ticks, elapsed >>

\* update(dt) whose addition succeeds: the loop runs and the call returns.
UpdateReturns(dt) ==
    /\ pc = "idle"
    /\ updates < MaxUpdates
    /\ timing_plus(dt) # None
    /\ Duration_followed(unwrap(timing_plus(dt)))
    /\ LET r == update_loop([W EXCEPT !.timing =
                                Duration_as_nanos(unwrap(timing_plus(dt)))], 0)
       IN  /\ invaders' = r.world.invaders
           /\ score' = r.world.score
           /\ timing' = r.world.timing
           /\ screen' = r.world.screen
           /\ ticks' = ticks + r.ticks
    /\ elapsed' = elapsed + Duration_as_nanos(dt)
    /\ updates' = updates + 1
    /\ UNCHANGED << pc, invader, start, calls, trace, recent >>

DurationNext == \E dt \in Durations : UpdatePanics(dt) \/ UpdateReturns(dt)

\* The World fed Durations of any size the type holds.
DurationSpec == Init /\ [][DurationNext]_vars

\* ------------------------------------------------------------------- claims

\* The invader of grid g at (row, col).
invader_at(g, row, col) == unwrap(g[row][col])

\* In grid `after`, the invader at (row, col) is the one of grid `before` one
\* animation frame later, and no other cell differs from `before`.
OnlyAnimated(before, after, row, col) ==
    /\ before[row][col] # None
    /\ after[row][col] # None
    /\ invader_at(after, row, col).sprite.frame =
          (invader_at(before, row, col).sprite.frame + 1) % frame_count
    /\ invader_at(after, row, col).sprite.template =
          invader_at(before, row, col).sprite.template
    /\ \A c \in Cells :
          c # << row, col >> => after[c[1]][c[2]] = before[c[1]][c[2]]

\* The stepper after k calls of incr from s, in closed form: k columns on,
\* one row back (wrapping 0 to ROWS - 1) for each pass of the last column.
cell_after(s, k) ==
    [row |-> (s.row + ROWS * k - ((s.col + k) \div COLS)) % ROWS,
     col |-> (s.col + k) % COLS]

\* Whether the k-th cell after stepper s is occupied in grid g.
occupied_after(g, s, k) ==
    LET t == cell_after(s, k) IN g[t.row][t.col] # None

\* No cell of grid g holds an invader.
GridEmpty(g) == \A c \in Cells : g[c[1]][c[2]] = None

\* C1: after any sequence of update calls from a fresh World, the number of
\* simulation steps performed equals floor(sum of dt / one_frame) and the
\* leftover in World.timing equals sum(dt) - steps * one_frame.
C1_StepsAreFloor ==
    /\ ticks = elapsed \div one_frame
    /\ timing = elapsed - ticks * one_frame

\* Six calls of 5 ms: 30 ms, one step, 13_333_333 ns left over.
C1_Witness ==
    /\ updates = 6
    /\ elapsed = 30000000
    /\ ticks = 1
    /\ timing = 13333333

\* C2: in every reachable World, update(a) then update(b) leaves the same
\* World (leftover timing, stepper, every invader) and performs the same
\* number of steps as the single call update(a + b).
C2_SplitInvariant ==
    \A a \in Deltas, b \in Deltas :
        LET first  == World_update(W, a)
            second == World_update(first.world, b)
            single == World_update(W, a + b)
        IN  /\ second.world = single.world
            /\ first.ticks + second.ticks = single.ticks

\* A World with 10 ms left over: neither half of a 5 ms + 5 ms split steps
\* at its own call boundary without the leftover, the sum does.
C2_Witness ==
    /\ ticks = 1
    /\ timing = 10000000
    /\ World_update(W, 5000000).ticks = 0
    /\ World_update(World_update(W, 5000000).world, 5000000).ticks = 1
    /\ World_update(W, 10000000).ticks = 1

\* C3: a finished step_invaders call has advanced by one frame the animation
\* cursor of exactly one invader, the one in the first occupied cell the
\* stepper reaches from where it stood, and has left every other invader
\* (cursor, position, score) as it was.
C3_OneInvaderAnimated ==
    pc = "done" =>
        \E k \in 1..(ROWS * COLS) :
            /\ occupied_after(start.grid, start.stepper, k)
            /\ \A j \in 1..(k - 1) : ~occupied_after(start.grid, start.stepper, j)
            /\ LET t == cell_after(start.stepper, k)
               IN  /\ OnlyAnimated(start.grid, invaders.grid, t.row, t.col)
                   /\ invader_at(invaders.grid, t.row, t.col).pos =
                         invader_at(start.grid, t.row, t.col).pos
                   /\ invader_at(invaders.grid, t.row, t.col).score =
                         invader_at(start.grid, t.row, t.col).score

\* A finished step that skipped eleven empty cells on a grid with other
\* invaders left.
C3_Witness ==
    /\ pc = "done"
    /\ calls = COLS + 1
    /\ Cardinality({ c \in Cells : invaders.grid[c[1]][c[2]] # None }) > COLS

\* C4: after any number of incr calls the cursor is a valid grid index, and
\* so is every (col, row) pair a call returned.
C4_CursorInGrid ==
    /\ invaders.stepper.col \in 0..(COLS - 1)
    /\ invaders.stepper.row \in 0..(ROWS - 1)
    /\ \A i \in 1..Len(trace) :
          /\ trace[i][1] \in 0..(COLS - 1)
          /\ trace[i][2] \in 0..(ROWS - 1)

\* Two full sweeps of the grid.
C4_Witness == calls = 2 * ROWS * COLS

\* C5: ROWS*COLS incr calls from the default state bring the stepper back to
\* the default state (and no fewer do), so the returned cells repeat with
\* period ROWS*COLS.
C5_Period ==
    /\ calls = ROWS * COLS => invaders.stepper = Stepper_default
    /\ calls \in 1..(ROWS * COLS - 1) => invaders.stepper # Stepper_default
    /\ \A i \in 1..(Len(trace) - ROWS * COLS) : trace[i + ROWS * COLS] = trace[i]

\* The second period has been walked to its end.
C5_Witness ==
    /\ calls = 2 * ROWS * COLS
    /\ Len(trace) = 2 * ROWS * COLS

\* The cursor (col, row) before the i-th incr call.
cursor_before(i) ==
    IF i = 1 THEN << Stepper_default.col, Stepper_default.row >> ELSE trace[i - 1]

\* C6: every incr call follows the step rule: from (row, col) to
\* (row, col + 1) if col + 1 < COLS, else to column 0 of row - 1, row 0
\* wrapping to ROWS - 1.
C6_StepRule ==
    /\ \A i \in 1..Len(trace) :
          LET col == cursor_before(i)[1]
              row == cursor_before(i)[2]
          IN  IF col + 1 < COLS
              THEN trace[i] = << col + 1, row >>
              ELSE trace[i] = << 0, IF row = 0 THEN ROWS - 1 ELSE row - 1 >>
    /\ Len(trace) > 0 =>
          trace[Len(trace)] = << invaders.stepper.col, invaders.stepper.row >>

\* The rows have wrapped from 0 to ROWS - 1 and stepped down from 1 to 0.
C6_Witness ==
    /\ \E i \in 2..Len(trace) : trace[i - 1][2] = 0 /\ trace[i][2] = ROWS - 1
    /\ \E i \in 2..Len(trace) : trace[i - 1][2] = 1 /\ trace[i][2] = 0
    /\ \E i \in 2..Len(trace) : trace[i - 1][1] = 4 /\ trace[i][1] = 5

\* C7, as claimed: the stepper starts at (row 0, col COLS - 1) and the first
\* incr lands on and returns (row 0, col 0).
C7_FirstIsOrigin ==
    /\ calls = 0 => invaders.stepper = [row |-> 0, col |-> COLS - 1]
    /\ calls = 1 =>
          /\ trace[1] = << 0, 0 >>
          /\ invaders.stepper = [row |-> 0, col |-> 0]

\* C7, amended: the stepper starts at (row 0, col COLS - 1) and the first
\* incr lands on and returns (row ROWS - 1, col 0).
C7_FirstIsLastRow ==
    /\ calls = 0 => invaders.stepper = [row |-> 0, col |-> COLS - 1]
    /\ calls = 1 =>
          /\ trace[1] = << 0, ROWS - 1 >>
          /\ invaders.stepper = [row |-> ROWS - 1, col |-> 0]

\* The first incr call has returned.
C7_Witness == calls = 1 /\ Len(trace) = 1

\* C8, as claimed: one update(16_666_667 ns) on a fresh World performs one
\* step, which advances by one the frame of the invader at (row 0, col 0)
\* and changes no other invader.
C8_FirstTickAtOrigin ==
    (updates = 1 /\ elapsed = one_frame) =>
        /\ ticks = 1
        /\ OnlyAnimated(make_invader_grid, invaders.grid, 0, 0)

\* C8, amended: one update(16_666_667 ns) on a fresh World performs one
\* step, which advances by one the frame of the invader at
\* (row ROWS - 1, col 0) and changes no other invader.
C8_FirstTickAtLastRow ==
    (updates = 1 /\ elapsed = one_frame) =>
        /\ ticks = 1
        /\ timing = 0
        /\ OnlyAnimated(make_invader_grid, invaders.grid, ROWS - 1, 0)

\* The single update(16_666_667 ns) has returned.
C8_Witness == updates = 1 /\ elapsed = one_frame /\ ticks = 1

\* C9: on a grid with every cell empty the search of step_invaders ends.
\* (The code has no empty-formation result to give: leaving the loop at all
\* is the least the claim asks.)  The all-empty grid is an input of StepInit
\* only: make_invader_grid fills every cell and nothing in the code empties
\* one, so no run of the program from World::new comes to this case, and what
\* the loop does there decides nothing about the program's executions.
C9_EmptySearchEnds == (pc = "search" /\ GridEmpty(invaders.grid)) ~> (pc = "done")

\* C10: on a grid with an invader left, from any stepper position, the
\* search makes at most ROWS*COLS incr calls (none is pending once that many
\* are made), and when it is left the cursor is on the occupied cell that is
\* animated.
C10_SearchBounded ==
    ~GridEmpty(start.grid) =>
        /\ calls <= ROWS * COLS
        /\ (pc = "search" /\ invader = None) => calls < ROWS * COLS
        /\ (pc = "search" /\ invader # None) \/ pc = "done" =>
              /\ invaders.grid[invaders.stepper.row][invaders.stepper.col] # None
              /\ invader = Some(<< invaders.stepper.row, invaders.stepper.col >>)
        /\ pc = "done" =>
              \A c \in Cells :
                  c # << invaders.stepper.row, invaders.stepper.col >> =>
                      invaders.grid[c[1]][c[2]] = start.grid[c[1]][c[2]]

\* The worst case: a single survivor, found by the ROWS*COLS-th call.
C10_Witness ==
    /\ pc = "done"
    /\ calls = ROWS * COLS
    /\ Cardinality({ c \in Cells : invaders.grid[c[1]][c[2]] # None }) = 1

\* The closed form cell_after agrees with the incr calls made so far.
CellAfterAgrees ==
    \A k \in 1..Len(trace) :
        trace[k] = << cell_after(Stepper_default, k).col,
                      cell_after(Stepper_default, k).row >>

\* The step-by-step step_invaders and the operator agree.
StepAgrees == pc = "done" => invaders = step_invaders(start)

\* C11: update never fails: no call ends in a panic.
C11_UpdateNeverFails == pc # "panic"

\* C12: the buffer always has SCREEN_WIDTH*SCREEN_HEIGHT*4 bytes, draw returns
\* a buffer of that length, and right after draw's clear step, before any
\* sprite is drawn, byte i is 255 where i mod 4 = 3 and 0 elsewhere.
C12_BufferShape ==
    /\ screen.len = SCREEN_WIDTH * SCREEN_HEIGHT * 4
    /\ pc = "idle" => World_draw(W).screen.len = SCREEN_WIDTH * SCREEN_HEIGHT * 4
    /\ pc = "cleared" =>
          /\ screen.blits = << >>
          /\ DOMAIN screen_bytes(screen) = 0..(SCREEN_WIDTH * SCREEN_HEIGHT * 4 - 1)
          /\ \A i \in DOMAIN screen_bytes(screen) :
                screen_bytes(screen)[i] = IF i % 4 = 3 THEN 255 ELSE 0

\* A clear step of a draw call that follows an update and an earlier draw.
C12_Witness ==
    /\ pc = "cleared"
    /\ ticks > 0
    /\ updates > 1

\* The sprite template and the y offset the spec gives each band of rows.
band_template(row) ==
    IF row = 0 THEN "Blipjoy" ELSE IF row \in 1..2 THEN "Ferris" ELSE "Cthulhu"

band_offset_y(row) == IF row \in 1..2 THEN 5 ELSE 4

\* C13: right after construction the grid has ROWS rows of COLS cells, every
\* cell is occupied, and the invader at (row, col) stands at
\* (24, 60) + band offset + (col, row) * (16, 16), has its band's template
\* (on its first frame) and scores 10.
C13_GridPopulation ==
    (updates = 0 /\ pc = "idle") =>
        /\ DOMAIN invaders.grid = 0..(ROWS - 1)
        /\ \A row \in 0..(ROWS - 1) :
              /\ DOMAIN invaders.grid[row] = 0..(COLS - 1)
              /\ \A col \in 0..(COLS - 1) :
                    /\ invaders.grid[row][col] # None
                    /\ invader_at(invaders.grid, row, col) =
                          [sprite |-> [template |-> band_template(row), frame |-> 0],
                           pos    |-> [x |-> 24 + 3 + col * 16,
                                       y |-> 60 + band_offset_y(row) + row * 16],
                           score  |-> 10]
        /\ Cardinality({ c \in Cells : invaders.grid[c[1]][c[2]] # None }) = ROWS * COLS

\* The freshly constructed World: the last invader of the last row is in
\* place, nothing has been drawn.
C13_Witness ==
    /\ updates = 0
    /\ pc = "idle"
    /\ screen.fill = "default"
    /\ invader_at(invaders.grid, 4, 10).pos = [x |-> 187, y |-> 128]

\* C14: any ROWS*COLS consecutive incr calls return every grid cell exactly
\* once, whatever state the first of them starts from.
C14_WindowCoversGrid ==
    \A i \in 1..(Len(trace) - ROWS * COLS + 1) :
        { trace[j] : j \in i..(i + ROWS * COLS - 1) } =
            { << c[2], c[1] >> : c \in Cells }

\* Windows of ROWS*COLS calls starting from every stepper state have been
\* completed.
C14_Witness == Len(trace) = 2 * ROWS * COLS - 1

\* The occupied cells of a grid.
occupied(g) == { c \in Cells : g[c[1]][c[2]] # None }

\* C15: with ticks going on for ever on a fixed, non-empty occupancy of k
\* invaders, every k consecutive ticks animate each occupied invader exactly
\* once (each tick one invader, the k of them all different), and every
\* occupied invader is animated again and again: starting together on frame
\* 0, they are all on frame 1 and all back on frame 0 infinitely often.
C15_RoundRobin ==
    /\ [](LET k == Cardinality(occupied(invaders.grid))
          IN  /\ \A i \in 1..Len(recent) :
                    /\ Cardinality(recent[i]) = 1
                    /\ recent[i] \subseteq occupied(invaders.grid)
              /\ \A i \in 1..(Len(recent) - k + 1) :
                    UNION { recent[j] : j \in i..(i + k - 1) } =
                        occupied(invaders.grid))
    /\ []<>(\A c \in occupied(invaders.grid) :
                invader_at(invaders.grid, c[1], c[2]).sprite.frame = 1)
    /\ []<>(\A c \in occupied(invaders.grid) :
                invader_at(invaders.grid, c[1], c[2]).sprite.frame = 0)

\* Two of the five rows are left (22 invaders) and two whole rounds of ticks
\* have been made.
C15_Witness ==
    /\ Cardinality(occupied(invaders.grid)) = 2 * COLS
    /\ Len(recent) = ROWS * COLS
    /\ recent[1] = recent[1 + 2 * COLS]
    /\ recent[1] # recent[2]

\* C16: in every reachable World state one step_invaders call advances the
\* stepper by exactly one incr, so after n ticks from construction the stepper
\* stands on the n-th cell of the traversal (n mod ROWS*COLS).
C16_OneAdvancePerTick ==
    /\ invaders.stepper = cell_after([row |-> 0, col |-> COLS - 1], ticks % (ROWS * COLS))
    /\ pc = "idle" =>
          step_invaders(invaders).stepper = Stepper_incr(invaders.stepper).stepper

\* More ticks than the grid has cells have been made: the stepper has gone
\* round once.
C16_Witness == pc = "idle" /\ ticks > ROWS * COLS /\ invaders.stepper.row = ROWS - 1

\* What of a World the formation's shape and membership consist of: the grid's
\* dimensions, the occupied cells, every invader's position, score and sprite
\* template, the bounds and the game score.
formation(w) ==
    [rows     |-> DOMAIN w.invaders.grid,
     cols     |-> [y \in DOMAIN w.invaders.grid |-> DOMAIN w.invaders.grid[y]],
     occupied |-> occupied(w.invaders.grid),
     members  |-> [c \in occupied(w.invaders.grid) |->
                     [pos      |-> invader_at(w.invaders.grid, c[1], c[2]).pos,
                      score    |-> invader_at(w.invaders.grid, c[1], c[2]).score,
                      template |-> invader_at(w.invaders.grid, c[1], c[2]).sprite.template]],
     bounds   |-> w.invaders.bounds,
     score    |-> w.score]

\* C17: after any sequence of update and draw calls the grid has ROWS rows of
\* COLS cells and the occupied cells, every invader's position and score, the
\* bounds and the game score are as constructed; an update leaves all of these
\* and the pixel buffer as they are.
C17_FormationUnchanged ==
    /\ formation(W) = formation(World_new)
    /\ formation(W).rows = 0..(ROWS - 1)
    /\ \A y \in 0..(ROWS - 1) : formation(W).cols[y] = 0..(COLS - 1)
    /\ pc = "idle" =>
          \A dt \in Deltas :
              /\ formation(World_update(W, dt).world) = formation(W)
              /\ World_update(W, dt).world.screen = screen

\* Updates have animated invaders and a draw has been made since.
C17_Witness ==
    /\ pc = "idle"
    /\ ticks > COLS
    /\ updates > 2
    /\ Len(screen.blits) = ROWS * COLS
    /\ invader_at(invaders.grid, ROWS - 1, 0).sprite.frame = 1

\* The simulation state of a World: everything but the pixel buffer.
simulation(w) == [invaders |-> w.invaders, score |-> w.score, timing |-> w.timing]

\* C18: draw changes nothing but the pixel buffer; a second draw right after a
\* draw leaves the buffer as the first made it; an update made after a draw
\* ends in the simulation state it ends in without the draw.
C18_DrawIsPureView ==
    /\ [](pc = "idle" =>
             /\ simulation(World_draw(W)) = simulation(W)
             /\ World_draw(World_draw(W)).screen = World_draw(W).screen
             /\ \A dt \in Deltas :
                   simulation(World_update(World_draw(W), dt).world) =
                       simulation(World_update(W, dt).world))
    /\ [][(DrawClear \/ DrawBlits) => UNCHANGED << invaders, score, timing >>]_vars
    /\ [][DrawBlits => /\ screen' = World_draw(W).screen
                       /\ World_draw([W EXCEPT !.screen = screen']).screen = screen']_vars

\* A draw has been completed after updates that animated invaders: the buffer
\* holds a sprite on its second frame.
C18_Witness ==
    /\ pc = "idle"
    /\ timing > 0
    /\ \E i \in DOMAIN screen.blits : screen.blits[i].sprite.frame = 1

\* The bounds recomputed from the positions of the occupied invaders: the box
\* of the grid cells (of GRID size, counted from START) they stand in.
recomputed_bounds(g) ==
    LET xs == { (invader_at(g, c[1], c[2]).pos.x - 24) \div 16 : c \in occupied(g) }
        ys == { (invader_at(g, c[1], c[2]).pos.y - 60) \div 16 : c \in occupied(g) }
        min(S) == CHOOSE m \in S : \A n \in S : m <= n
        max(S) == CHOOSE m \in S : \A n \in S : m >= n
    IN  [left   |-> 24 + min(xs) * 16,
         right  |-> 24 + (max(xs) + 1) * 16,
         bottom |-> 60 + (max(ys) + 1) * 16]

\* C19: in every reachable World state every occupied invader stands inside
\* the bounds (left <= pos.x < right, pos.y < bottom) and the bounds are
\* left = START.x, right = START.x + COLS*GRID.x, bottom = START.y +
\* ROWS*GRID.y, which is what the occupied invaders' positions give.
C19_BoundsAreExtent ==
    /\ \A c \in occupied(invaders.grid) :
          /\ invaders.bounds.left <= invader_at(invaders.grid, c[1], c[2]).pos.x
          /\ invader_at(invaders.grid, c[1], c[2]).pos.x < invaders.bounds.right
          /\ invader_at(invaders.grid, c[1], c[2]).pos.y < invaders.bounds.bottom
    /\ invaders.bounds = [left |-> 24, right |-> 24 + 11 * 16, bottom |-> 60 + 5 * 16]
    /\ invaders.bounds = recomputed_bounds(invaders.grid)

\* Updates and a draw have been made on the constructed formation.
C19_Witness ==
    /\ pc = "idle"
    /\ updates > 2
    /\ ticks > 0
    /\ screen.fill = "clear"
    /\ occupied(invaders.grid) = Cells

====
